---- MODULE Spec2Model ----
(***************************************************************************)
(* Model of src/src/control.rs (dynein, DynamoDB control plane commands).  *)
(*                                                                         *)
(* Rust values are represented as follows:                                 *)
(*   Option<T>   : None is <<>>, Some(x) is <<x>>                          *)
(*   Vec<T>      : a sequence                                              *)
(*   a struct    : a record with the field names of the source             *)
(*   a call that may panic : Panic, or Ok(v) for a normal return of v      *)
(* The process is described by                                             *)
(*   term      : "running", "returned" (the command function returned),    *)
(*               "exited" (std::process::exit), "panicked" (unwrap/expect) *)
(*   exit_code : the argument of std::process::exit, NoCode before it      *)
(*   log       : what went to the logger, <<level, message>>               *)
(*   stdout    : what was printed with println!                            *)
(*   requests  : the requests sent to the service, in order                *)
(*   items     : the tables or regions a command works on, one unit each    *)
(*   units     : the state of the unit of work of each item                 *)
(***************************************************************************)
EXTENDS Integers, Sequences, FiniteSets, TLC

VARIABLES op, pc, term, exit_code, log, stdout, requests,
          list_backups_res, backup_name, restore_name, available_backups,
          selection_texts, selection, backup_arn,
          desc, print_mode, print_table,
          given_keys,
          items, units, output,
          skip_confirmation, confirmation

vars == <<op, pc, term, exit_code, log, stdout, requests,
          list_backups_res, backup_name, restore_name, available_backups,
          selection_texts, selection, backup_arn,
          desc, print_mode, print_table,
          given_keys,
          items, units, output,
          skip_confirmation, confirmation>>

(* ------------------------------ bounds --------------------------------- *)

MaxBackups == 3

MaxIndexes == 2

MaxKeys == 3

MaxItems == 3

(* --------------------------- Rust value forms -------------------------- *)

None == <<>>

Some(x) == <<x>>

Panic == [panic |-> TRUE]

Ok(v) == [panic |-> FALSE, val |-> v]

NoCode == -1

SeqsUpTo(S, n) == UNION {[1..k -> S] : k \in 0..n}

(* ------------------------------ constants ------------------------------ *)

ONDEMAND_API_SPEC == "PAY_PER_REQUEST"

(* app::Context of the invocation: effective_region(), effective_table_name() *)
cx == [region |-> "us-west-2", table |-> "Music"]

(* ------------------------- private functions -------------------------- *)

(* Days since 1970-01-01 to <<year, month, day>> (proleptic Gregorian),    *)
(* as chrono's NaiveDateTime::from_timestamp computes the date.            *)
civil_from_days(days) ==
    LET z   == days + 719468
        era == z \div 146097
        doe == z - era * 146097
        yoe == (doe - doe \div 1460 + doe \div 36524 - doe \div 146096) \div 365
        doy == doe - (365 * yoe + yoe \div 4 - yoe \div 100)
        mp  == (5 * doy + 2) \div 153
        d   == doy - (153 * mp + 2) \div 5 + 1
        m   == IF mp < 10 THEN mp + 3 ELSE mp - 9
        y   == yoe + era * 400 + (IF m <= 2 THEN 1 ELSE 0)
    IN  <<y, m, d>>

(* epoch_to_rfc3339: seconds since the epoch to "Y-M-DTh:m:s+00:00", kept  *)
(* as the tuple <<Y, M, D, h, m, s, "+00:00">> of its fields.              *)
epoch_to_rfc3339(epoch) ==
    LET days == epoch \div 86400
        sod  == epoch % 86400
        ymd  == civil_from_days(days)
    IN  <<ymd[1], ymd[2], ymd[3], sod \div 3600, (sod % 3600) \div 60, sod % 60, "+00:00">>

extract_mode(bs) ==
    IF bs = None THEN Ok("Provisioned")
    ELSE IF bs[1].billing_mode = None THEN Panic
    ELSE IF bs[1].billing_mode[1] = ONDEMAND_API_SPEC THEN Ok("OnDemand")
    ELSE Ok("Provisioned")

(* extract_capacity that reports the capacity whenever it is described *)
extract_capacity_ignoring_mode(mode, cap_desc) ==
    IF cap_desc = None THEN (IF mode = "OnDemand" THEN Ok(None) ELSE Panic)
    ELSE IF cap_desc[1].write_capacity_units = None THEN Panic
    ELSE IF cap_desc[1].read_capacity_units = None THEN Panic
    ELSE Ok(Some([wcu |-> cap_desc[1].write_capacity_units[1],
                  rcu |-> cap_desc[1].read_capacity_units[1]]))

(* extract_capacity with the read and write units exchanged *)
extract_capacity_swapped(mode, cap_desc) ==
    IF mode = "OnDemand" THEN Ok(None)
    ELSE IF cap_desc = None THEN Panic
    ELSE IF cap_desc[1].write_capacity_units = None THEN Panic
    ELSE IF cap_desc[1].read_capacity_units = None THEN Panic
    ELSE Ok(Some([wcu |-> cap_desc[1].read_capacity_units[1],
                  rcu |-> cap_desc[1].write_capacity_units[1]]))

extract_capacity(mode, cap_desc) ==
    IF mode = "OnDemand" THEN Ok(None)
    ELSE IF cap_desc = None THEN Panic
    ELSE IF cap_desc[1].write_capacity_units = None THEN Panic
    ELSE IF cap_desc[1].read_capacity_units = None THEN Panic
    ELSE Ok(Some([wcu |-> cap_desc[1].write_capacity_units[1],
                  rcu |-> cap_desc[1].read_capacity_units[1]]))

(* impl IndexDesc for GlobalSecondaryIndexDescription *)
gsi_extract_index_capacity(idx, m) ==
    IF m = "OnDemand" THEN Ok(None)
    ELSE extract_capacity(m, idx.provisioned_throughput)

(* a local index that reports a capacity of its own on provisioned tables *)
lsi_extract_index_capacity_own(idx, m) ==
    IF m = "OnDemand" THEN Ok(None) ELSE Ok(Some([wcu |-> 0, rcu |-> 0]))

(* impl IndexDesc for LocalSecondaryIndexDescription *)
lsi_extract_index_capacity(idx, m) == Ok(None)

(* app::typed_key_for_schema: the entry of the key schema with the given   *)
(* role, typed by the attribute definition of the same name; None when     *)
(* either lookup finds nothing.  display() is kept as <<name, type>>.      *)
typed_key_for_schema(role, ks, attr_defs) ==
    LET hits == SelectSeq(ks, LAMBDA k : k.key_type = role)
    IN  IF hits = <<>> THEN None
        ELSE LET defs == SelectSeq(attr_defs,
                             LAMBDA a : a.attribute_name = hits[1].attribute_name)
             IN  IF defs = <<>> THEN None
                 ELSE Some(<<hits[1].attribute_name, defs[1].attribute_type>>)

(* app::typed_key: the same, on the table's own key schema *)
typed_key(role, d) ==
    IF d.key_schema = None \/ d.attribute_definitions = None THEN None
    ELSE typed_key_for_schema(role, d.key_schema[1], d.attribute_definitions[1])

(* IndexDesc::extract_index_capacity: T is the global ("gsi") or the local *)
(* ("lsi") index description                                               *)
extract_index_capacity(T, idx, m) ==
    IF T = "gsi" THEN gsi_extract_index_capacity(idx, m)
    ELSE lsi_extract_index_capacity(idx, m)

(* One PrintSecondaryIndex of the loop of extract_secondary_indexes *)
print_secondary_index(T, mode, attr_defs, idx) ==
    IF idx.key_schema = None THEN Panic
    ELSE IF idx.index_name = None THEN Panic
    ELSE IF typed_key_for_schema("HASH", idx.key_schema[1], attr_defs) = None THEN Panic
    ELSE LET cap == extract_index_capacity(T, idx, mode)
         IN  IF cap.panic THEN Panic
             ELSE Ok([name     |-> idx.index_name[1],
                      schema   |-> [pk |-> typed_key_for_schema("HASH", idx.key_schema[1], attr_defs)[1],
                                    sk |-> typed_key_for_schema("RANGE", idx.key_schema[1], attr_defs)],
                      capacity |-> cap.val])

extract_secondary_indexes(T, mode, attr_defs, indexes) ==
    IF indexes = None THEN Ok(None)
    ELSE LET xs == [i \in 1..Len(indexes[1]) |->
                      print_secondary_index(T, mode, attr_defs, indexes[1][i])]
         IN  IF \E i \in 1..Len(xs) : xs[i].panic THEN Panic
             ELSE Ok(Some([i \in 1..Len(xs) |-> xs[i].val]))

extract_stream(arn, spec) ==
    IF arn = None THEN Ok(None)
    ELSE IF spec = None THEN Panic
    ELSE IF spec[1].stream_view_type = None THEN Panic
    ELSE Ok(Some(<<arn[1], spec[1].stream_view_type[1]>>))

(* The PrintDescribeTable that print_table_description builds and prints,  *)
(* or Panic when one of its unwrap/expect calls fails.                     *)
PrintDescribeTable(region, d) ==
    IF d.attribute_definitions = None THEN Panic
    ELSE LET attr_defs == d.attribute_definitions[1]
             m         == extract_mode(d.billing_mode_summary)
         IN
         IF m.panic THEN Panic
         ELSE LET mode     == m.val
                  capacity == extract_capacity(mode, d.provisioned_throughput)
                  gsi      == extract_secondary_indexes("gsi", mode, attr_defs,
                                  d.global_secondary_indexes)
                  lsi      == extract_secondary_indexes("lsi", mode, attr_defs,
                                  d.local_secondary_indexes)
                  stream   == extract_stream(d.latest_stream_arn, d.stream_specification)
              IN
              IF \/ d.table_name = None
                 \/ d.table_status = None
                 \/ typed_key("HASH", d) = None
                 \/ capacity.panic
                 \/ gsi.panic
                 \/ lsi.panic
                 \/ stream.panic
                 \/ d.table_size_bytes = None
                 \/ d.item_count = None
                 \/ d.creation_date_time = None
              THEN Panic
              ELSE Ok([name       |-> d.table_name[1],
                       region     |-> region,
                       status     |-> d.table_status[1],
                       schema     |-> [pk |-> typed_key("HASH", d)[1],
                                       sk |-> typed_key("RANGE", d)],
                       mode       |-> mode,
                       capacity   |-> capacity.val,
                       gsi        |-> gsi.val,
                       lsi        |-> lsi.val,
                       stream     |-> stream.val,
                       count      |-> d.item_count[1],
                       size_bytes |-> d.table_size_bytes[1],
                       created_at |-> epoch_to_rfc3339(d.creation_date_time[1])])

(* ------------------------------- inputs -------------------------------- *)

(* A well-formed table description of an on-demand table without indexes *)
DescBase ==
    [table_name             |-> Some("Music"),
     table_status           |-> Some("ACTIVE"),
     attribute_definitions  |-> Some(<<[attribute_name |-> "pk", attribute_type |-> "S"],
                                       [attribute_name |-> "sk", attribute_type |-> "N"]>>),
     key_schema             |-> Some(<<[attribute_name |-> "pk", key_type |-> "HASH"]>>),
     billing_mode_summary   |-> Some([billing_mode |-> Some(ONDEMAND_API_SPEC)]),
     provisioned_throughput |-> None,
     global_secondary_indexes |-> None,
     local_secondary_indexes  |-> None,
     latest_stream_arn      |-> None,
     stream_specification   |-> None,
     table_size_bytes       |-> Some(0),
     item_count             |-> Some(0),
     creation_date_time     |-> Some(951825600)]

(* The table descriptions a create, update or restore call answers with:   *)
(* a well-formed one, and one the aggregator cannot print.                 *)
ReturnedDescs ==
    {DescBase, [DescBase EXCEPT !.attribute_definitions = None]}

(* BackupSummary values without their ARN: every name and status, and one  *)
(* summary for each field the service may leave out.                       *)
BackupShapes ==
    LET full(n, st) == [backup_name |-> Some(n), backup_status |-> Some(st),
                        backup_creation_date_time |-> Some(86399),
                        backup_size_bytes |-> Some(10)]
    IN  {full(n, st) : n \in {"A", "B"}, st \in {"AVAILABLE", "DELETED"}}
        \cup {[full("A", "AVAILABLE") EXCEPT !.backup_name = None],
              [full("A", "AVAILABLE") EXCEPT !.backup_status = None],
              [full("A", "AVAILABLE") EXCEPT !.backup_creation_date_time = None],
              [full("A", "AVAILABLE") EXCEPT !.backup_size_bytes = None]}

(* The backup lists of the service: the ARN of a backup names its position *)
(* in the list, and a summary may come without one.                        *)
BackupLists ==
    {[i \in 1..Len(shapes) |->
         [backup_name   |-> shapes[i].backup_name,
          backup_status |-> shapes[i].backup_status,
          backup_arn    |-> IF arns[i] THEN Some(i) ELSE None,
          backup_creation_date_time |-> shapes[i].backup_creation_date_time,
          backup_size_bytes |-> shapes[i].backup_size_bytes]] :
     <<shapes, arns>> \in UNION {[1..k -> BackupShapes] \X [1..k -> BOOLEAN] : k \in 0..MaxBackups}}

(* The answers of the ListBackups call: an error, a result without         *)
(* backup_summaries, or a list of backups.                                 *)
ListBackupsResults ==
    {[err |-> TRUE], [err |-> FALSE, backup_summaries |-> None]}
    \cup {[err |-> FALSE, backup_summaries |-> Some(l)] : l \in BackupLists}

BackupNames == {None, Some("A"), Some("B"), Some("C")}

RestoreNames == {None, Some("Copy")}

(* SystemTime::now() as seconds since the epoch *)
Epochs == {1597410967, 1597410968}

(* ------------------------- process termination ------------------------- *)

(* std::process::exit(code) *)
exit(code) == term' = "exited" /\ exit_code' = code

(* a failed unwrap() or expect() *)
panic == term' = "panicked" /\ exit_code' = exit_code

(* the command function returns to its caller *)
return == term' = "returned" /\ exit_code' = exit_code

(* app::bye(code, msg): print the message and end the process with code *)
bye(code, msg) == stdout' = Append(stdout, <<"line", msg>>) /\ exit(code)

(* print_table_description(region, desc), first printing the lines in     *)
(* `before`; the caller returns after it.                                 *)
print_table_description(region, d, before) ==
    LET r == PrintDescribeTable(region, d)
    IN  IF r.panic
        THEN stdout' = stdout \o before /\ print_table' = print_table /\ panic
        ELSE /\ stdout' = (stdout \o before) \o << <<"yaml", r.val>> >>
             /\ print_table' = Some(r.val)
             /\ return

(* ------------------------------- restore ------------------------------- *)

(* filter_available without the comparison of the status *)
filter_available_any_status(raw) ==
    IF \E i \in 1..Len(raw) : raw[i].backup_status = None THEN Panic
    ELSE Ok(raw)

(* restore, lines 378-382: the backups whose status is "AVAILABLE", in     *)
(* their order; unwrap() of a missing status panics.                       *)
filter_available(raw) ==
    IF \E i \in 1..Len(raw) : raw[i].backup_status = None THEN Panic
    ELSE Ok(SelectSeq(raw, LAMBDA b : b.backup_status[1] = "AVAILABLE"))

(* no_available_backup that never holds *)
no_available_backup_never(available) == FALSE

(* restore, line 384: the test before app::bye(0, ...) *)
no_available_backup(available) == Len(available) = 0

RECURSIVE fetch_arn_from_backup_name(_, _)
fetch_arn_from_backup_name(bname, available) ==
    IF available = <<>> THEN Panic
    ELSE IF Head(available).backup_name = None THEN Panic
    ELSE IF Head(available).backup_name[1] = bname
         THEN IF Head(available).backup_arn = None THEN Panic
              ELSE Ok(Head(available).backup_arn[1])
    ELSE fetch_arn_from_backup_name(bname, Tail(available))

(* restore, lines 390-396: one label per available backup *)
selection_texts_of(available) ==
    IF \E i \in 1..Len(available) :
           \/ available[i].backup_name = None
           \/ available[i].backup_creation_date_time = None
           \/ available[i].backup_size_bytes = None
    THEN Panic
    ELSE Ok([i \in 1..Len(available) |->
                <<available[i].backup_name[1],
                  epoch_to_rfc3339(available[i].backup_creation_date_time[1]),
                  available[i].backup_size_bytes[1], "bytes">>])

(* restore, lines 417-420 *)
target_table_name_of(source_table_name, rname, epoch) ==
    IF rname = None THEN <<source_table_name, "--restore-", epoch>>
    ELSE <<rname[1]>>

(* list_backups_api and the filter: lines 378-384 and 501-517 *)
restore_list_backups ==
    /\ op = "restore" /\ term = "running" /\ pc = "start"
    /\ LET res == list_backups_res IN
         IF res.err
         THEN /\ log' = Append(log, <<"debug", "ListBackups API call got an error">>)
              /\ stdout' = Append(stdout, <<"line", "ListBackups error">>)
              /\ exit(1)
              /\ UNCHANGED <<pc, available_backups>>
         ELSE IF res.backup_summaries = None
         THEN panic /\ UNCHANGED <<pc, available_backups, log, stdout>>
         ELSE LET avail == filter_available(res.backup_summaries[1])
              IN  IF avail.panic
                  THEN panic /\ UNCHANGED <<pc, available_backups, log, stdout>>
                  ELSE IF no_available_backup(avail.val)
                  THEN /\ bye(0, "No AVAILABLE state backup found for the table.")
                       /\ pc' = "NoEligibleBackup"
                       /\ available_backups' = avail.val
                       /\ log' = log
                  ELSE /\ pc' = "NoBackupChosen"
                       /\ available_backups' = avail.val
                       /\ UNCHANGED <<term, exit_code, log, stdout>>
    /\ UNCHANGED <<items, units, output, skip_confirmation, confirmation>>
    /\ UNCHANGED <<print_mode, op, requests, list_backups_res, backup_name, restore_name,
                   selection_texts, selection, backup_arn, desc, print_table, given_keys>>

(* lines 387-388: a backup name was given *)
restore_fetch_arn ==
    /\ op = "restore" /\ term = "running" /\ pc = "NoBackupChosen"
    /\ backup_name # None
    /\ LET r == fetch_arn_from_backup_name(backup_name[1], available_backups)
       IN  IF r.panic
           THEN panic /\ UNCHANGED <<pc, backup_arn>>
           ELSE /\ backup_arn' = Some(r.val)
                /\ pc' = "Resolved"
                /\ UNCHANGED <<term, exit_code>>
    /\ UNCHANGED <<items, units, output, skip_confirmation, confirmation>>
    /\ UNCHANGED <<print_mode, op, log, stdout, requests, list_backups_res, backup_name, restore_name,
                   available_backups, selection_texts, selection, desc, print_table,
                   given_keys>>

(* lines 389-403: no name was given, the selection is shown *)
restore_show_selection ==
    /\ op = "restore" /\ term = "running" /\ pc = "NoBackupChosen"
    /\ backup_name = None
    /\ LET r == selection_texts_of(available_backups)
       IN  IF r.panic
           THEN panic /\ UNCHANGED <<pc, selection_texts, log>>
           ELSE /\ selection_texts' = r.val
                /\ log' = Append(log, <<"debug", "available selections">>)
                /\ pc' = "AwaitingSelection"
                /\ UNCHANGED <<term, exit_code>>
    /\ UNCHANGED <<items, units, output, skip_confirmation, confirmation>>
    /\ UNCHANGED <<print_mode, op, stdout, requests, list_backups_res, backup_name, restore_name,
                   available_backups, selection, backup_arn, desc, print_table, given_keys>>

(* lines 404-411: interact() answers with an index of the items shown, or  *)
(* fails (no terminal)                                                     *)
restore_select ==
    /\ op = "restore" /\ term = "running" /\ pc = "AwaitingSelection"
    /\ \E answer \in {None} \cup {Some(i) : i \in 0..(Len(selection_texts) - 1)} :
         IF answer = None
         THEN panic /\ UNCHANGED <<pc, selection, backup_arn>>
         ELSE /\ selection' = answer
              /\ IF available_backups[answer[1] + 1].backup_arn = None
                 THEN panic /\ UNCHANGED <<pc, backup_arn>>
                 ELSE /\ backup_arn' = available_backups[answer[1] + 1].backup_arn
                      /\ pc' = "Resolved"
                      /\ UNCHANGED <<term, exit_code>>
    /\ UNCHANGED <<items, units, output, skip_confirmation, confirmation>>
    /\ UNCHANGED <<print_mode, op, log, stdout, requests, list_backups_res, backup_name, restore_name,
                   available_backups, selection_texts, desc, print_table, given_keys>>

(* lines 414-430: the restore request is sent *)
restore_send_request ==
    /\ op = "restore" /\ term = "running" /\ pc = "Resolved"
    /\ \E epoch \in Epochs :
         requests' = Append(requests,
             [api               |-> "RestoreTableFromBackup",
              backup_arn        |-> backup_arn[1],
              target_table_name |-> target_table_name_of(cx.table, restore_name, epoch)])
    /\ pc' = "Restoring"
    /\ UNCHANGED <<items, units, output, skip_confirmation, confirmation>>
    /\ UNCHANGED <<print_mode, op, term, exit_code, log, stdout, list_backups_res, backup_name,
                   restore_name, available_backups, selection_texts, selection, backup_arn,
                   desc, print_table, given_keys>>

(* restore_err that sends the request again *)
restore_err_retry ==
    /\ op = "restore" /\ term = "running" /\ pc = "Restoring"
    /\ log' = Append(log, <<"debug", "RestoreTableFromBackup API call got an error">>)
    /\ pc' = "Resolved"
    /\ UNCHANGED <<items, units, output, skip_confirmation, confirmation>>
    /\ UNCHANGED <<print_mode, op, term, exit_code, stdout, requests, list_backups_res, backup_name,
                   restore_name, available_backups, selection_texts, selection, backup_arn,
                   desc, print_table, given_keys>>

(* lines 431-436: the restore call failed *)
restore_err ==
    /\ op = "restore" /\ term = "running" /\ pc = "Restoring"
    /\ log' = Append(log, <<"debug", "RestoreTableFromBackup API call got an error">>)
    /\ pc' = "RestoreFailed"
    /\ return
    /\ UNCHANGED <<items, units, output, skip_confirmation, confirmation>>
    /\ UNCHANGED <<print_mode, op, stdout, requests, list_backups_res, backup_name, restore_name,
                   available_backups, selection_texts, selection, backup_arn, desc,
                   print_table, given_keys>>

(* lines 437-442: the restore call answered *)
restore_ok ==
    /\ op = "restore" /\ term = "running" /\ pc = "Restoring"
    /\ log' = Append(log, <<"debug", "Returned result">>)
    /\ \E table_description \in {None} \cup {Some(d) : d \in ReturnedDescs} :
         LET started == << <<"line", "Table restoration has been started", backup_arn[1]>> >>
         IN  IF table_description = None
             THEN /\ stdout' = stdout \o started
                  /\ panic
                  /\ UNCHANGED <<pc, desc, print_table>>
             ELSE /\ desc' = table_description
                  /\ print_table_description(cx.region, table_description[1], started)
                  /\ pc' = IF PrintDescribeTable(cx.region, table_description[1]).panic
                           THEN pc ELSE "RestoredDisplayed"
    /\ UNCHANGED <<items, units, output, skip_confirmation, confirmation>>
    /\ UNCHANGED <<print_mode, op, requests, list_backups_res, backup_name, restore_name,
                   available_backups, selection_texts, selection, backup_arn, given_keys>>

restore ==
    \/ restore_list_backups
    \/ restore_fetch_arn
    \/ restore_show_selection
    \/ restore_select
    \/ restore_send_request
    \/ restore_err
    \/ restore_ok

InitRestore ==
    /\ op = "restore" /\ pc = "start" /\ term = "running" /\ exit_code = NoCode
    /\ log = <<>> /\ stdout = <<>> /\ requests = <<>>
    /\ list_backups_res \in ListBackupsResults
    /\ backup_name \in BackupNames
    /\ restore_name \in RestoreNames
    /\ available_backups = <<>> /\ selection_texts = <<>> /\ selection = None
    /\ backup_arn = None
    /\ desc = None /\ print_mode = None /\ print_table = None /\ given_keys = <<>>
    /\ items = <<>> /\ units = <<>> /\ output = None
    /\ skip_confirmation = FALSE /\ confirmation = None

SpecRestore == InitRestore /\ [][restore]_vars

(* --------------------------- restore: claims --------------------------- *)

(* the ListBackups call answered with a list of backups *)
Answered == ~list_backups_res.err /\ list_backups_res.backup_summaries # None

Raw == list_backups_res.backup_summaries[1]

IsAvailable(b) == b.backup_status = Some("AVAILABLE")

(* positions of the raw list holding an available backup, up to position n *)
AvailableUpTo(n) == {j \in 1..n : IsAvailable(Raw[j])}

(* C1: every restore request carries the ARN of a backup of the raw list   *)
(* whose status is AVAILABLE; with a name given that backup has exactly    *)
(* that name, with none given it is the entry at the selected index of the *)
(* available backups in their original order; and the selection shows      *)
(* exactly the available backups, in that order.                           *)
C1_RestoresOnlyAvailableBackup ==
    /\ \A k \in 1..Len(requests) :
          LET a == requests[k].backup_arn
          IN  /\ Answered
              /\ a \in 1..Len(Raw)
              /\ Raw[a].backup_arn = Some(a)
              /\ IsAvailable(Raw[a])
              /\ backup_name # None => Raw[a].backup_name = backup_name
              /\ backup_name = None =>
                    /\ selection # None
                    /\ Cardinality(AvailableUpTo(a)) = selection[1] + 1
    /\ selection_texts # <<>> =>
          /\ Answered
          /\ Len(selection_texts) = Cardinality(AvailableUpTo(Len(Raw)))
          /\ \A i \in 1..Len(selection_texts) :
                \E j \in AvailableUpTo(Len(Raw)) :
                    /\ Cardinality(AvailableUpTo(j)) = i
                    /\ Raw[j].backup_name = Some(selection_texts[i][1])

(* C1 witness: the second entry of the selection was chosen and restored,  *)
(* and the raw list starts with a backup that is not available             *)
C1_Witness ==
    /\ Len(requests) = 1 /\ backup_name = None /\ selection = Some(1)
    /\ ~IsAvailable(Raw[1])

(* the given name matches no available backup, and there is one *)
NoEligibleMatch ==
    /\ Answered /\ backup_name # None
    /\ \A j \in 1..Len(Raw) : Raw[j].backup_status # None
    /\ AvailableUpTo(Len(Raw)) # {}
    /\ \A j \in AvailableUpTo(Len(Raw)) :
          Raw[j].backup_name # None /\ Raw[j].backup_name # backup_name

ErrorLogged == \E k \in 1..Len(log) : log[k][1] = "error"

(* C2: a name that matches no eligible backup ends the workflow in a       *)
(* user-input error that is logged, and no restore request is sent.        *)
C2_NoMatchIsLoggedUserError ==
    (NoEligibleMatch /\ pc # "start") =>
        /\ pc = "NoBackupChosen"
        /\ requests = <<>>
        /\ term # "running" => (term = "exited" /\ ErrorLogged)

(* C3: a failed restore call ends in RestoreFailed with the error reported *)
(* and exit code 1, and no table description is displayed.                 *)
C3_RestoreFailureExitsOne ==
    pc = "RestoreFailed" =>
        /\ term = "exited" /\ exit_code = 1
        /\ ErrorLogged
        /\ print_table = None

(* C4: when no backup of the list is available, restore ends with exit     *)
(* code 0 reporting it, with or without a name: no lookup, no selection    *)
(* and no request.                                                         *)
C4_NoEligibleBackupExitsZero ==
    (/\ Answered
     /\ \A j \in 1..Len(Raw) : Raw[j].backup_status # None
     /\ AvailableUpTo(Len(Raw)) = {}
     /\ (pc # "start" \/ term # "running")) =>
        /\ pc = "NoEligibleBackup"
        /\ term = "exited" /\ exit_code = 0
        /\ stdout = << <<"line", "No AVAILABLE state backup found for the table.">> >>
        /\ requests = <<>> /\ backup_arn = None
        /\ selection_texts = <<>> /\ selection = None

(* C4 witness: a name was given, both backups of the list are not          *)
(* available, and restore has ended                                        *)
C4_Witness ==
    /\ Answered /\ Len(Raw) = 2 /\ AvailableUpTo(2) = {}
    /\ \A j \in 1..2 : Raw[j].backup_status # None
    /\ backup_name = Some("A") /\ Raw[1].backup_name = Some("A")
    /\ term = "exited"

RestoreTerminal == {"RestoredDisplayed", "RestoreFailed", "NoEligibleBackup"}

(* the transitions of the restore state machine *)
RestoreTransitions ==
    /\ pc' # pc =>
        \/ pc = "start" /\ pc' \in {"NoBackupChosen", "NoEligibleBackup"}
        \/ pc = "NoBackupChosen" /\ pc' = "Resolved" /\ backup_name # None
        \/ pc = "NoBackupChosen" /\ pc' = "AwaitingSelection" /\ backup_name = None
        \/ pc = "AwaitingSelection" /\ pc' = "Resolved" /\ backup_name = None
        \/ pc = "Resolved" /\ pc' = "Restoring" /\ requests = <<>> /\ Len(requests') = 1
        \/ pc = "Restoring" /\ pc' \in {"RestoredDisplayed", "RestoreFailed"}
    /\ requests' # requests => (pc = "Resolved" /\ pc' = "Restoring")
    /\ term # "running" => UNCHANGED vars

(* a run is cut short: the list call failed, or an unwrap()/expect() did *)
RestoreAborted ==
    \/ term = "exited" /\ exit_code = 1 /\ pc = "start" /\ list_backups_res.err
    \/ term = "panicked" /\ pc \in {"start", "NoBackupChosen", "AwaitingSelection", "Restoring"}

(* C5 as stated: the transitions, and every run that has ended is in one   *)
(* of the three terminal states.                                           *)
C5_EndsInThreeTerminalStates ==
    /\ [][RestoreTransitions]_vars
    /\ [](term # "running" <=> pc \in RestoreTerminal)

(* C5 amended: the transitions, Restoring entered from Resolved only and   *)
(* once, and every run that has ended is in one of the three terminal      *)
(* states or was cut short by a fatal termination.                         *)
C5_EndsInTerminalOrAborted ==
    /\ [][RestoreTransitions]_vars
    /\ [](pc \in RestoreTerminal => term # "running")
    /\ [](term # "running" => (pc \in RestoreTerminal \/ RestoreAborted))
    /\ [](pc \in RestoreTerminal => ~RestoreAborted)
    /\ [](Len(requests) <= 1)

(* C5 witness: the run went through the selection and ended in             *)
(* RestoreFailed                                                           *)
C5_Witness ==
    pc = "RestoreFailed" /\ selection # None /\ term = "returned" /\ Len(requests) = 1

(* ----------------------- print_table_description ---------------------- *)

(* ProvisionedThroughputDescription values *)
Throughputs ==
    {None,
     Some([read_capacity_units |-> Some(1), write_capacity_units |-> Some(2)]),
     Some([read_capacity_units |-> None,    write_capacity_units |-> Some(2)]),
     Some([read_capacity_units |-> Some(1), write_capacity_units |-> None])}

(* BillingModeSummary values *)
BillingModeSummaries ==
    {None,
     Some([billing_mode |-> None]),
     Some([billing_mode |-> Some(ONDEMAND_API_SPEC)]),
     Some([billing_mode |-> Some("PROVISIONED")]),
     Some([billing_mode |-> Some("pay_per_request")])}

KeySchemaPk == <<[attribute_name |-> "pk", key_type |-> "HASH"]>>

KeySchemaSkPk ==
    <<[attribute_name |-> "sk", key_type |-> "HASH"],
      [attribute_name |-> "pk", key_type |-> "RANGE"]>>

(* GlobalSecondaryIndexDescription values *)
GlobalIndexes ==
    {[index_name |-> Some("g1"), key_schema |-> Some(KeySchemaSkPk),
      provisioned_throughput |-> Some([read_capacity_units |-> Some(3),
                                       write_capacity_units |-> Some(4)])],
     [index_name |-> Some("g2"), key_schema |-> Some(KeySchemaPk),
      provisioned_throughput |-> None],
     [index_name |-> None, key_schema |-> Some(KeySchemaPk),
      provisioned_throughput |-> Some([read_capacity_units |-> Some(5),
                                       write_capacity_units |-> Some(6)])]}

(* LocalSecondaryIndexDescription values *)
LocalIndexes ==
    {[index_name |-> Some("l1"), key_schema |-> Some(KeySchemaPk)],
     [index_name |-> Some("l2"), key_schema |-> Some(KeySchemaSkPk)],
     [index_name |-> Some("l3"), key_schema |-> None]}

(* an optional list of at most MaxIndexes index descriptions *)
IndexLists(S) == {None} \cup {Some(l) : l \in SeqsUpTo(S, MaxIndexes)}

(* The table descriptions given to print_table_description: every billing  *)
(* mode, throughput and index list on a table that is otherwise complete,  *)
(* and the complete table with one of its other fields changed.            *)
TableDescriptions ==
    {[DescBase EXCEPT !.billing_mode_summary = bs,
                      !.provisioned_throughput = pt,
                      !.global_secondary_indexes = gsi,
                      !.local_secondary_indexes = lsi] :
        bs \in BillingModeSummaries, pt \in Throughputs,
        gsi \in IndexLists(GlobalIndexes), lsi \in IndexLists(LocalIndexes)}
    \cup
    {[DescBase EXCEPT !.table_name = None],
     [DescBase EXCEPT !.table_status = None],
     [DescBase EXCEPT !.attribute_definitions = None],
     [DescBase EXCEPT !.attribute_definitions = Some(<<>>)],
     [DescBase EXCEPT !.key_schema = None],
     [DescBase EXCEPT !.key_schema = Some(KeySchemaSkPk)],
     [DescBase EXCEPT !.key_schema = Some(<<[attribute_name |-> "sk", key_type |-> "RANGE"]>>)],
     [DescBase EXCEPT !.latest_stream_arn = Some("arn1"),
                      !.stream_specification = Some([stream_view_type |-> Some("NEW_IMAGE")])],
     [DescBase EXCEPT !.latest_stream_arn = Some("arn1")],
     [DescBase EXCEPT !.stream_specification = Some([stream_view_type |-> Some("NEW_IMAGE")])],
     [DescBase EXCEPT !.table_size_bytes = None],
     [DescBase EXCEPT !.item_count = None],
     [DescBase EXCEPT !.creation_date_time = None],
     [DescBase EXCEPT !.creation_date_time = Some(0)]}

(* lines 171-172: the attribute definitions are unwrapped and the mode is  *)
(* classified                                                              *)
print_extract_mode ==
    /\ op = "print_table_description" /\ term = "running" /\ pc = "start"
    /\ IF desc[1].attribute_definitions = None
       THEN panic /\ UNCHANGED <<pc, print_mode>>
       ELSE LET m == extract_mode(desc[1].billing_mode_summary)
            IN  IF m.panic
                THEN panic /\ UNCHANGED <<pc, print_mode>>
                ELSE /\ print_mode' = Some(m.val)
                     /\ pc' = "mode"
                     /\ UNCHANGED <<term, exit_code>>
    /\ UNCHANGED <<items, units, output, skip_confirmation, confirmation>>
    /\ UNCHANGED <<op, log, stdout, requests, list_backups_res, backup_name, restore_name,
                   available_backups, selection_texts, selection, backup_arn, desc,
                   print_table, given_keys>>

(* lines 174-194: the record is built and printed *)
print_build ==
    /\ op = "print_table_description" /\ term = "running" /\ pc = "mode"
    /\ print_table_description(cx.region, desc[1], <<>>)
    /\ pc' = "done"
    /\ UNCHANGED <<items, units, output, skip_confirmation, confirmation>>
    /\ UNCHANGED <<op, log, requests, list_backups_res, backup_name, restore_name,
                   available_backups, selection_texts, selection, backup_arn, desc,
                   print_mode, given_keys>>

print ==
    \/ print_extract_mode
    \/ print_build

InitPrint ==
    /\ op = "print_table_description" /\ pc = "start" /\ term = "running"
    /\ exit_code = NoCode
    /\ log = <<>> /\ stdout = <<>> /\ requests = <<>>
    /\ list_backups_res = [err |-> TRUE] /\ backup_name = None /\ restore_name = None
    /\ available_backups = <<>> /\ selection_texts = <<>> /\ selection = None
    /\ backup_arn = None
    /\ desc \in {Some(d) : d \in TableDescriptions}
    /\ print_mode = None /\ print_table = None /\ given_keys = <<>>
    /\ items = <<>> /\ units = <<>> /\ output = None
    /\ skip_confirmation = FALSE /\ confirmation = None

SpecPrint == InitPrint /\ [][print]_vars

(* ------------------ print_table_description: claims ------------------- *)

(* the record of the table description has been built *)
Built == op = "print_table_description" /\ print_table # None

(* the capacity units of a throughput description, read to rcu *)
UnitsOf(pt) == [rcu |-> pt[1].read_capacity_units[1],
                wcu |-> pt[1].write_capacity_units[1]]

(* C6: the record of a table whose billing mode is PAY_PER_REQUEST has     *)
(* mode OnDemand and no capacity, for the table and for every global       *)
(* index, whatever throughput is described.                                *)
C6_OnDemandHasNoCapacity ==
    (Built /\ desc[1].billing_mode_summary = Some([billing_mode |-> Some(ONDEMAND_API_SPEC)])) =>
        /\ print_table[1].mode = "OnDemand"
        /\ print_table[1].capacity = None
        /\ print_table[1].gsi # None =>
              \A i \in 1..Len(print_table[1].gsi[1]) :
                  print_table[1].gsi[1][i].capacity = None

(* C6 witness: an on-demand table whose own throughput and whose global    *)
(* index's throughput are described was printed                            *)
C6_Witness ==
    /\ Built /\ print_table[1].mode = "OnDemand"
    /\ desc[1].provisioned_throughput # None
    /\ desc[1].provisioned_throughput[1].read_capacity_units # None
    /\ desc[1].provisioned_throughput[1].write_capacity_units # None
    /\ desc[1].global_secondary_indexes # None
    /\ \E i \in 1..Len(desc[1].global_secondary_indexes[1]) :
          desc[1].global_secondary_indexes[1][i].provisioned_throughput # None

(* C7: on a provisioned table the capacity of the record is exactly the    *)
(* described read and write units, for the table and for every global      *)
(* index; and a missing throughput description is a panic, not an absent   *)
(* capacity.                                                               *)
C7_ProvisionedCapacityIsExact ==
    (op = "print_table_description" /\ print_mode = Some("Provisioned")) =>
        /\ print_table # None =>
              /\ desc[1].provisioned_throughput # None
              /\ print_table[1].capacity = Some(UnitsOf(desc[1].provisioned_throughput))
              /\ desc[1].global_secondary_indexes # None =>
                    /\ print_table[1].gsi # None
                    /\ \A i \in 1..Len(desc[1].global_secondary_indexes[1]) :
                          LET g == desc[1].global_secondary_indexes[1][i]
                          IN  /\ g.provisioned_throughput # None
                              /\ print_table[1].gsi[1][i].capacity =
                                     Some(UnitsOf(g.provisioned_throughput))
        /\ (/\ pc = "done"
            /\ \/ desc[1].provisioned_throughput = None
               \/ /\ desc[1].global_secondary_indexes # None
                  /\ \E i \in 1..Len(desc[1].global_secondary_indexes[1]) :
                        desc[1].global_secondary_indexes[1][i].provisioned_throughput = None)
           => (term = "panicked" /\ print_table = None /\ stdout = <<>>)

(* C7 witness: a provisioned table with a global index was printed with    *)
(* different read and write units                                          *)
C7_Witness ==
    /\ Built /\ print_mode = Some("Provisioned")
    /\ print_table[1].capacity = Some([rcu |-> 1, wcu |-> 2])
    /\ print_table[1].gsi # None /\ Len(print_table[1].gsi[1]) >= 1
    /\ print_table[1].gsi[1][1].capacity = Some([rcu |-> 3, wcu |-> 4])

(* C8: the local indexes of the record are absent exactly when the         *)
(* description has none; otherwise there is one entry per local index, in  *)
(* the order of the description, each without capacity, in either mode.    *)
C8_LocalIndexesHaveNoCapacity ==
    Built =>
        /\ print_table[1].lsi = None <=> desc[1].local_secondary_indexes = None
        /\ print_table[1].lsi # None =>
              /\ Len(print_table[1].lsi[1]) = Len(desc[1].local_secondary_indexes[1])
              /\ \A i \in 1..Len(print_table[1].lsi[1]) :
                    /\ Some(print_table[1].lsi[1][i].name) =
                           desc[1].local_secondary_indexes[1][i].index_name
                    /\ print_table[1].lsi[1][i].capacity = None

(* C8 witness: a provisioned table with a described throughput and two     *)
(* different local indexes was printed                                     *)
C8_Witness ==
    /\ Built /\ print_table[1].mode = "Provisioned"
    /\ print_table[1].capacity # None
    /\ print_table[1].lsi # None /\ Len(print_table[1].lsi[1]) = 2
    /\ print_table[1].lsi[1][1].name = "l2" /\ print_table[1].lsi[1][2].name = "l1"

(* the mode the classifier is to give for a billing mode summary *)
ModeOf(bs) ==
    IF bs = None THEN "Provisioned"
    ELSE IF bs[1].billing_mode = Some(ONDEMAND_API_SPEC) THEN "OnDemand"
    ELSE "Provisioned"

(* C9: extract_mode gives a mode for every billing mode summary, without   *)
(* failing: OnDemand for PAY_PER_REQUEST, Provisioned for an absent        *)
(* summary and for every other one, also one without a mode string.        *)
C9_ExtractModeIsTotal ==
    (/\ op = "print_table_description"
     /\ desc[1].attribute_definitions # None
     /\ (pc # "start" \/ term # "running")) =>
        print_mode = Some(ModeOf(desc[1].billing_mode_summary))

(* --------------------- create_table, create_index --------------------- *)

(* A Rust String is the sequence of its characters. *)
Lowercase == <<"a", "b", "c", "d", "e", "f", "g", "h", "i", "j", "k", "l", "m",
               "n", "o", "p", "q", "r", "s", "t", "u", "v", "w", "x", "y", "z">>

Uppercase == <<"A", "B", "C", "D", "E", "F", "G", "H", "I", "J", "K", "L", "M",
               "N", "O", "P", "Q", "R", "S", "T", "U", "V", "W", "X", "Y", "Z">>

(* str::to_uppercase *)
to_uppercase(str) ==
    [i \in 1..Len(str) |->
        IF \E j \in 1..Len(Lowercase) : Lowercase[j] = str[i]
        THEN Uppercase[CHOOSE j \in 1..Len(Lowercase) : Lowercase[j] = str[i]]
        ELSE str[i]]

(* str::split(','): the pieces between the commas, empty ones included *)
RECURSIVE split(_)
split(str) ==
    IF \A i \in 1..Len(str) : str[i] # ","
    THEN <<str>>
    ELSE LET i == CHOOSE k \in 1..Len(str) :
                     str[k] = "," /\ \A l \in 1..(k - 1) : str[l] # ","
         IN  <<SubSeq(str, 1, i - 1)>> \o split(SubSeq(str, i + 1, Len(str)))

(* The key schema and the attribute definitions of the given keys, as      *)
(* far as the loop of generate_essential_key_definitions has come after    *)
(* the first n keys; exit is set when a key has more than two pieces.      *)
RECURSIVE generate_essential_key_definitions_upto(_, _)
generate_essential_key_definitions_upto(keys, n) ==
    IF n = 0
    THEN [exit |-> FALSE, key_schema |-> <<>>, attribute_definitions |-> <<>>]
    ELSE LET before       == generate_essential_key_definitions_upto(keys, n - 1)
             key_and_type == split(keys[n])
             key_id       == n - 1
         IN  IF before.exit THEN before
             ELSE IF Len(key_and_type) > 2
             THEN [exit |-> TRUE, key_schema |-> before.key_schema,
                   attribute_definitions |-> before.attribute_definitions]
             ELSE [exit |-> FALSE,
                   key_schema |-> Append(before.key_schema,
                       [attribute_name |-> key_and_type[1],
                        key_type |-> IF key_id = 0 THEN "HASH" ELSE "RANGE"]),
                   attribute_definitions |-> Append(before.attribute_definitions,
                       [attribute_name |-> key_and_type[1],
                        attribute_type |-> IF Len(key_and_type) = 2
                                           THEN to_uppercase(key_and_type[2])
                                           ELSE <<"S">>])]

(* generate_essential_key_definitions whose key_id stays 0 *)
generate_essential_key_definitions_all_hash(keys) ==
    LET g == generate_essential_key_definitions_upto(keys, Len(keys))
    IN  [g EXCEPT !.key_schema =
            [i \in 1..Len(g.key_schema) |-> [g.key_schema[i] EXCEPT !.key_type = "HASH"]]]

generate_essential_key_definitions(keys) ==
    generate_essential_key_definitions_upto(keys, Len(keys))

(* The values of --keys: with and without a type, a lower case type, an    *)
(* empty type, three pieces, and the empty string.                         *)
KeySpecifiers ==
    {<<"p", "k">>, <<"p", "k", ",", "S">>, <<"s", "k", ",", "N">>,
     <<"s", "k", ",", "n">>, <<"i", "d", ",">>, <<"a", ",", "b", ",", "c">>, <<>>,
     <<"i", "d", ",", "B">>}

(* the name argument of create_table and the index_name of create_index *)
NewName == "Users"

(* create_table whose test of the keys has no upper limit *)
create_table_bad_keys_no_upper(keys) == Len(keys) = 0

(* create_table, line 201 *)
create_table_bad_keys(keys) == Len(keys) = 0 \/ Len(keys) > 2

(* create_index, line 237 *)
create_index_bad_keys(keys) == Len(keys) = 0 \/ Len(keys) > 2

(* lines 200-206 and 217-232: the keys are checked and the CreateTable     *)
(* request is sent                                                         *)
create_table ==
    /\ op = "create_table" /\ term = "running" /\ pc = "start"
    /\ IF create_table_bad_keys(given_keys)
       THEN /\ log' = Append(log, <<"error", "You should pass one or two key definitions with --keys option">>)
            /\ exit(1)
            /\ UNCHANGED <<pc, requests>>
       ELSE LET g == generate_essential_key_definitions(given_keys)
            IN  IF g.exit
                THEN /\ log' = log \o << <<"debug", "Trying to create a table">>,
                                         <<"error", "Invalid format for --keys option">> >>
                     /\ exit(1)
                     /\ UNCHANGED <<pc, requests>>
                ELSE /\ log' = Append(log, <<"debug", "Trying to create a table">>)
                     /\ requests' = Append(requests,
                            [api                   |-> "CreateTable",
                             table_name            |-> NewName,
                             billing_mode          |-> Some(ONDEMAND_API_SPEC),
                             key_schema            |-> g.key_schema,
                             attribute_definitions |-> g.attribute_definitions])
                     /\ pc' = "awaiting"
                     /\ UNCHANGED <<term, exit_code>>
    /\ UNCHANGED <<items, units, output, skip_confirmation, confirmation>>
    /\ UNCHANGED <<op, stdout, list_backups_res, backup_name, restore_name,
                   available_backups, selection_texts, selection, backup_arn, desc,
                   print_mode, print_table, given_keys>>

(* lines 207 and 232: the call answered *)
create_table_ok ==
    /\ op = "create_table" /\ term = "running" /\ pc = "awaiting"
    /\ \E table_description \in {None} \cup {Some(d) : d \in ReturnedDescs} :
         IF table_description = None
         THEN panic /\ UNCHANGED <<desc, stdout, print_table>>
         ELSE /\ desc' = table_description
              /\ print_table_description(cx.region, table_description[1], <<>>)
    /\ pc' = "done"
    /\ UNCHANGED <<items, units, output, skip_confirmation, confirmation>>
    /\ UNCHANGED <<op, log, requests, list_backups_res, backup_name, restore_name,
                   available_backups, selection_texts, selection, backup_arn,
                   print_mode, given_keys>>

(* lines 208-212: the call failed *)
create_table_err ==
    /\ op = "create_table" /\ term = "running" /\ pc = "awaiting"
    /\ log' = log \o << <<"debug", "CreateTable API call got an error">>,
                        <<"error", "CreateTable error">> >>
    /\ exit(1)
    /\ pc' = "done"
    /\ UNCHANGED <<items, units, output, skip_confirmation, confirmation>>
    /\ UNCHANGED <<op, stdout, requests, list_backups_res, backup_name, restore_name,
                   available_backups, selection_texts, selection, backup_arn, desc,
                   print_mode, print_table, given_keys>>

(* lines 236-264: the keys are checked and the UpdateTable request is sent *)
create_index ==
    /\ op = "create_index" /\ term = "running" /\ pc = "start"
    /\ IF create_index_bad_keys(given_keys)
       THEN /\ log' = Append(log, <<"error", "You should pass one or two key definitions with --keys option">>)
            /\ exit(1)
            /\ UNCHANGED <<pc, requests>>
       ELSE LET g == generate_essential_key_definitions(given_keys)
            IN  IF g.exit
                THEN /\ log' = log \o << <<"debug", "Trying to create an index">>,
                                         <<"error", "Invalid format for --keys option">> >>
                     /\ exit(1)
                     /\ UNCHANGED <<pc, requests>>
                ELSE /\ log' = Append(log, <<"debug", "Trying to create an index">>)
                     /\ requests' = Append(requests,
                            [api                   |-> "UpdateTable",
                             table_name            |-> cx.table,
                             attribute_definitions |-> Some(g.attribute_definitions),
                             global_secondary_index_updates |-> Some(<<
                               [create |-> Some([index_name |-> NewName,
                                                 key_schema |-> g.key_schema,
                                                 projection |-> [projection_type |-> Some("ALL"),
                                                                 non_key_attributes |-> None],
                                                 provisioned_throughput |-> None]),
                                update |-> None,
                                delete |-> None]>>)])
                     /\ pc' = "awaiting"
                     /\ UNCHANGED <<term, exit_code>>
    /\ UNCHANGED <<items, units, output, skip_confirmation, confirmation>>
    /\ UNCHANGED <<op, stdout, list_backups_res, backup_name, restore_name,
                   available_backups, selection_texts, selection, backup_arn, desc,
                   print_mode, print_table, given_keys>>

(* lines 265-269: the call failed *)
create_index_err ==
    /\ op = "create_index" /\ term = "running" /\ pc = "awaiting"
    /\ log' = log \o << <<"debug", "UpdateTable API call got an error">>,
                        <<"error", "UpdateTable error">> >>
    /\ exit(1)
    /\ pc' = "done"
    /\ UNCHANGED <<items, units, output, skip_confirmation, confirmation>>
    /\ UNCHANGED <<op, stdout, requests, list_backups_res, backup_name, restore_name,
                   available_backups, selection_texts, selection, backup_arn, desc,
                   print_mode, print_table, given_keys>>

(* lines 270-273: the call answered *)
create_index_ok ==
    /\ op = "create_index" /\ term = "running" /\ pc = "awaiting"
    /\ log' = Append(log, <<"debug", "Returned result">>)
    /\ \E table_description \in {None} \cup {Some(d) : d \in ReturnedDescs} :
         IF table_description = None
         THEN panic /\ UNCHANGED <<desc, stdout, print_table>>
         ELSE /\ desc' = table_description
              /\ print_table_description(cx.region, table_description[1], <<>>)
    /\ pc' = "done"
    /\ UNCHANGED <<items, units, output, skip_confirmation, confirmation>>
    /\ UNCHANGED <<op, requests, list_backups_res, backup_name, restore_name,
                   available_backups, selection_texts, selection, backup_arn,
                   print_mode, given_keys>>

create ==
    \/ create_table
    \/ create_table_ok
    \/ create_table_err
    \/ create_index
    \/ create_index_ok
    \/ create_index_err

InitCreate ==
    /\ op \in {"create_table", "create_index"} /\ pc = "start" /\ term = "running"
    /\ exit_code = NoCode
    /\ log = <<>> /\ stdout = <<>> /\ requests = <<>>
    /\ list_backups_res = [err |-> TRUE] /\ backup_name = None /\ restore_name = None
    /\ available_backups = <<>> /\ selection_texts = <<>> /\ selection = None
    /\ backup_arn = None
    /\ desc = None /\ print_mode = None /\ print_table = None
    /\ given_keys \in SeqsUpTo(KeySpecifiers, MaxKeys)
    /\ items = <<>> /\ units = <<>> /\ output = None
    /\ skip_confirmation = FALSE /\ confirmation = None

SpecCreate == InitCreate /\ [][create]_vars

(* ------------------ create_table, create_index: claims ----------------- *)

(* C10: with no key or more than two keys create_table and create_index    *)
(* end with exit code 1 and send no request; a request is sent only for    *)
(* one or two keys.                                                        *)
C10_BadKeyArityExitsOne ==
    op \in {"create_table", "create_index"} =>
        /\ (Len(given_keys) \notin {1, 2} /\ (pc # "start" \/ term # "running")) =>
              (term = "exited" /\ exit_code = 1 /\ requests = <<>> /\ pc = "start")
        /\ requests # <<>> => Len(given_keys) \in {1, 2}

(* C10 witness: create_table was given three keys and has ended *)
C10_Witness ==
    op = "create_table" /\ Len(given_keys) = 3 /\ term = "exited" /\ requests = <<>>

(* the length of the name of a well-formed key "name[,TYPE]": the name is *)
(* not empty and has no comma, and what follows is nothing or a comma and  *)
(* one of S, N, B                                                          *)
NameLengths(key) ==
    {j \in 1..Len(key) :
        /\ \A l \in 1..j : key[l] # ","
        /\ \/ j = Len(key)
           \/ Len(key) = j + 2 /\ key[j + 1] = "," /\ key[j + 2] \in {"S", "N", "B"}}

WellFormedKey(key) == NameLengths(key) # {}

NameOfKey(key) == SubSeq(key, 1, CHOOSE j \in NameLengths(key) : TRUE)

TypeOfKey(key) ==
    IF Len(NameOfKey(key)) = Len(key) THEN <<"S">> ELSE <<key[Len(key)]>>

(* the key schema and the attribute definitions of the request sent *)
SentKeySchema ==
    IF op = "create_table" THEN requests[1].key_schema
    ELSE requests[1].global_secondary_index_updates[1][1].create[1].key_schema

SentAttributeDefinitions ==
    IF op = "create_table" THEN requests[1].attribute_definitions
    ELSE requests[1].attribute_definitions[1]

(* C11: for one or two well-formed keys "name[,TYPE]" the request carries  *)
(* a key schema and attribute definitions with one entry per key, in the   *)
(* order of the keys: the first key is HASH, the second RANGE, each name   *)
(* is the name of the key and each type its TYPE, or S without one.        *)
C11_KeyDefinitionsFollowTheKeys ==
    (/\ op \in {"create_table", "create_index"}
     /\ Len(given_keys) \in {1, 2}
     /\ \A i \in 1..Len(given_keys) : WellFormedKey(given_keys[i])
     /\ (pc # "start" \/ term # "running")) =>
        /\ Len(requests) = 1
        /\ Len(SentKeySchema) = Len(given_keys)
        /\ Len(SentAttributeDefinitions) = Len(given_keys)
        /\ \A i \in 1..Len(given_keys) :
              /\ SentKeySchema[i] =
                    [attribute_name |-> NameOfKey(given_keys[i]),
                     key_type       |-> IF i = 1 THEN "HASH" ELSE "RANGE"]
              /\ SentAttributeDefinitions[i] =
                    [attribute_name |-> NameOfKey(given_keys[i]),
                     attribute_type |-> TypeOfKey(given_keys[i])]

(* C11 witness: create_table was given "pk,S" and "sk,N" and has sent its  *)
(* request                                                                 *)
C11_Witness ==
    /\ op = "create_table"
    /\ given_keys = << <<"p", "k", ",", "S">>, <<"s", "k", ",", "N">> >>
    /\ Len(requests) = 1

(* ------- describe_table, describe_all_tables, list_tables_all_regions -- *)

(* the tables of the region and the regions of the account, in the order   *)
(* the service lists them                                                  *)
AllTableNames == <<"Music", "Users", "Orders", "Events", "Logs">>

AllRegionNames == <<"us-west-2", "us-east-1", "eu-west-1", "ap-northeast-1", "sa-east-1">>

(* The answers of ListTables and DescribeRegions: an error, a result       *)
(* without the list, or the first k names.                                 *)
ListResults(names) ==
    {[err |-> TRUE], [err |-> FALSE, list |-> None]}
    \cup {[err |-> FALSE, list |-> Some(SubSeq(names, 1, k))] : k \in 0..MaxItems}

(* The descriptions describe_table_api gives for a table: a complete one,  *)
(* one without attribute definitions and one without the table name.       *)
DescribedTables(t) ==
    {[DescBase EXCEPT !.table_name = Some(t)],
     [DescBase EXCEPT !.table_name = Some(t), !.attribute_definitions = None],
     [DescBase EXCEPT !.table_name = None]}

(* the values of cx.output *)
Outputs == {None, Some("yaml"), Some("json")}

(* the table names a region answers list_tables_api with *)
RegionTables == {None, Some(<<>>), Some(<<"Music">>), Some(<<"Music", "Users">>)}

(* cx.cached_using_table_schema(): the table in use, if one is cached *)
CachedTables == {None, Some([region |-> cx.region, name |-> cx.table])}

(* a unit of work whose request is in flight *)
PendingUnit == [st |-> "pending", cache |-> "none", desc |-> None, printed |-> None]

(* join_all over the items: every future is polled once, in order, and     *)
(* sends its request                                                       *)
launch(api, names) ==
    /\ items' = names
    /\ units' = [i \in 1..Len(names) |-> PendingUnit]
    /\ requests' = requests \o [i \in 1..Len(names) |-> [api |-> api, item |-> names[i]]]

(* describe_table whose Err arm of the cache write prints nothing *)
cache_write_report_silent(res) ==
    [log |-> IF res = "ok"
             THEN << <<"debug", "Described table schema was written to the cache file.">> >>
             ELSE <<>>,
     stdout |-> <<>>]

(* describe_table, lines 155-158: what the match on the result of          *)
(* app::insert_to_table_cache logs and prints                              *)
cache_write_report(res) ==
    [log |-> IF res = "ok"
             THEN << <<"debug", "Described table schema was written to the cache file.">> >>
             ELSE <<>>,
     stdout |-> IF res = "ok" THEN <<>>
                ELSE << <<"line", "Failed to write table schema to the cache with follwoing error">> >>]

(* describe_table, lines 148-150: the DescribeTable request of one table *)
describe_table_start ==
    /\ op = "describe_table" /\ term = "running" /\ pc = "start"
    /\ log' = Append(log, <<"debug", "context">>)
    /\ launch("DescribeTable", <<cx.table>>)
    /\ pc' = "joining"
    /\ UNCHANGED <<op, term, exit_code, stdout, list_backups_res, backup_name,
                   restore_name, available_backups, selection_texts, selection, backup_arn,
                   desc, print_mode, print_table, given_keys, output, skip_confirmation,
                   confirmation>>

(* describe_all_tables, line 141: the ListTables request *)
describe_all_tables_start ==
    /\ op = "describe_all_tables" /\ term = "running" /\ pc = "start"
    /\ requests' = Append(requests, [api |-> "ListTables", item |-> cx.region])
    /\ pc' = "listing"
    /\ UNCHANGED <<op, term, exit_code, log, stdout, list_backups_res, backup_name,
                   restore_name, available_backups, selection_texts, selection, backup_arn,
                   desc, print_mode, print_table, given_keys, items, units, output,
                   skip_confirmation, confirmation>>

(* lines 141-142 and 488-496: ListTables answered; one describe_table per  *)
(* table is started                                                        *)
describe_all_tables_listed ==
    /\ op = "describe_all_tables" /\ term = "running" /\ pc = "listing"
    /\ \E res \in ListResults(AllTableNames) :
         IF res.err
         THEN /\ log' = log \o << <<"debug", "ListTables API call got an error">>,
                                  <<"error", "ListTables error">> >>
              /\ exit(1)
              /\ UNCHANGED <<pc, items, units, requests>>
         ELSE IF res.list = None
         THEN panic /\ UNCHANGED <<pc, log, items, units, requests>>
         ELSE /\ launch("DescribeTable", res.list[1])
              /\ log' = log \o [i \in 1..Len(res.list[1]) |-> <<"debug", "context">>]
              /\ pc' = "joining"
              /\ UNCHANGED <<term, exit_code>>
    /\ UNCHANGED <<op, stdout, list_backups_res, backup_name, restore_name,
                   available_backups, selection_texts, selection, backup_arn, desc,
                   print_mode, print_table, given_keys, output, skip_confirmation,
                   confirmation>>

(* list_tables_all_regions, lines 100-102: the DescribeRegions request *)
list_tables_all_regions_start ==
    /\ op = "list_tables_all_regions" /\ term = "running" /\ pc = "start"
    /\ requests' = Append(requests, [api |-> "DescribeRegions", item |-> cx.region])
    /\ pc' = "listing"
    /\ UNCHANGED <<op, term, exit_code, log, stdout, list_backups_res, backup_name,
                   restore_name, available_backups, selection_texts, selection, backup_arn,
                   desc, print_mode, print_table, given_keys, items, units, output,
                   skip_confirmation, confirmation>>

(* lines 102-111: DescribeRegions answered; one list_tables per region is  *)
(* started                                                                 *)
list_tables_all_regions_listed ==
    /\ op = "list_tables_all_regions" /\ term = "running" /\ pc = "listing"
    /\ \E res \in ListResults(AllRegionNames) :
         IF res.err
         THEN /\ log' = Append(log, <<"error", "DescribeRegions error">>)
              /\ exit(1)
              /\ UNCHANGED <<pc, items, units, requests>>
         ELSE IF res.list = None
         THEN panic /\ UNCHANGED <<pc, log, items, units, requests>>
         ELSE /\ launch("ListTables", res.list[1])
              /\ pc' = "joining"
              /\ UNCHANGED <<term, exit_code, log>>
    /\ UNCHANGED <<op, stdout, list_backups_res, backup_name, restore_name,
                   available_backups, selection_texts, selection, backup_arn, desc,
                   print_mode, print_table, given_keys, output, skip_confirmation,
                   confirmation>>

(* describe_table, lines 150-164: the description of table i arrived; it  *)
(* is cached, with either result, and printed                              *)
describe_table_ok(i) ==
    /\ op \in {"describe_table", "describe_all_tables"}
    /\ term = "running" /\ pc = "joining" /\ units[i].st = "pending"
    /\ \E d \in DescribedTables(items[i]), res \in {"ok", "err"} :
         LET rep   == cache_write_report(res)
             out1  == stdout \o rep.stdout
             r     == PrintDescribeTable(cx.region, d)
             ended(st, cache, printed) ==
                 [units EXCEPT ![i] = [st |-> st, cache |-> cache, desc |-> Some(d),
                                       printed |-> printed]]
         IN  /\ desc' = Some(d)
             /\ IF d.table_name = None
                THEN /\ panic
                     /\ units' = ended("aborted", "none", None)
                     /\ UNCHANGED <<log, stdout, print_table>>
                ELSE /\ log' = (log \o << <<"debug", "Retrieved table to describe">> >>) \o rep.log
                     /\ IF output \notin {None, Some("yaml")}
                        THEN /\ stdout' = Append(out1, <<"line", "ERROR: unsupported output type.">>)
                             /\ exit(1)
                             /\ units' = ended("aborted", res, None)
                             /\ UNCHANGED print_table
                        ELSE IF r.panic
                        THEN /\ stdout' = out1
                             /\ panic
                             /\ units' = ended("aborted", res, None)
                             /\ UNCHANGED print_table
                        ELSE /\ stdout' = Append(out1, <<"yaml", r.val>>)
                             /\ print_table' = Some(r.val)
                             /\ units' = ended("done", res, Some(r.val))
                             /\ UNCHANGED <<term, exit_code>>
    /\ UNCHANGED <<op, pc, requests, list_backups_res, backup_name, restore_name,
                   available_backups, selection_texts, selection, backup_arn,
                   print_mode, given_keys, items, output, skip_confirmation, confirmation>>

(* app::describe_table_api: the DescribeTable call of table i failed; the  *)
(* error is logged and the process ends                                    *)
describe_table_err(i) ==
    /\ op \in {"describe_table", "describe_all_tables"}
    /\ term = "running" /\ pc = "joining" /\ units[i].st = "pending"
    /\ log' = log \o << <<"debug", "DescribeTable API call got an error">>,
                        <<"error", "DescribeTable error">> >>
    /\ exit(1)
    /\ units' = [units EXCEPT ![i].st = "failed"]
    /\ UNCHANGED <<op, pc, stdout, requests, list_backups_res, backup_name, restore_name,
                   available_backups, selection_texts, selection, backup_arn, desc,
                   print_mode, print_table, given_keys, items, output, skip_confirmation,
                   confirmation>>

(* the lines list_tables prints for the tables of a region, lines 119-134 *)
list_tables_lines(region, table_names, cached) ==
    << <<"line", "DynamoDB tables in region:", region>> >> \o
    (IF Len(table_names) = 0
     THEN << <<"line", "  No table in this region.", region>> >>
     ELSE [k \in 1..Len(table_names) |->
              IF /\ cached # None
                 /\ region = cached[1].region
                 /\ table_names[k] = cached[1].name
              THEN <<"line", "* ", table_names[k]>>
              ELSE <<"line", "  ", table_names[k]>>])

(* list_tables that keeps the process running when its call fails *)
list_tables_err_isolated(i) ==
    /\ op = "list_tables_all_regions"
    /\ term = "running" /\ pc = "joining" /\ units[i].st = "pending"
    /\ log' = log \o << <<"debug", "ListTables API call got an error">>,
                        <<"error", "ListTables error">> >>
    /\ units' = [units EXCEPT ![i].st = "failed"]
    /\ UNCHANGED <<op, pc, term, exit_code, stdout, requests, list_backups_res, backup_name,
                   restore_name, available_backups, selection_texts, selection, backup_arn,
                   desc, print_mode, print_table, given_keys, items, output,
                   skip_confirmation, confirmation>>

(* list_tables_api, lines 489-493: the ListTables call of region i failed *)
list_tables_err(i) ==
    /\ op = "list_tables_all_regions"
    /\ term = "running" /\ pc = "joining" /\ units[i].st = "pending"
    /\ log' = log \o << <<"debug", "ListTables API call got an error">>,
                        <<"error", "ListTables error">> >>
    /\ exit(1)
    /\ units' = [units EXCEPT ![i].st = "failed"]
    /\ UNCHANGED <<op, pc, stdout, requests, list_backups_res, backup_name, restore_name,
                   available_backups, selection_texts, selection, backup_arn, desc,
                   print_mode, print_table, given_keys, items, output, skip_confirmation,
                   confirmation>>

(* list_tables, lines 116-135 and 495: the tables of region i arrived and  *)
(* are printed                                                             *)
list_tables_ok(i) ==
    /\ op = "list_tables_all_regions"
    /\ term = "running" /\ pc = "joining" /\ units[i].st = "pending"
    /\ \E table_names \in RegionTables, cached \in CachedTables :
         IF table_names = None
         THEN /\ panic
              /\ units' = [units EXCEPT ![i].st = "aborted"]
              /\ UNCHANGED <<log, stdout>>
         ELSE /\ stdout' = stdout \o list_tables_lines(items[i], table_names[1], cached)
              /\ log' = IF Len(table_names[1]) > 0 /\ cached = None
                         THEN Append(log, <<"debug", "No table information is found on config file">>)
                         ELSE log
              /\ units' = [units EXCEPT ![i].st = "done"]
              /\ UNCHANGED <<term, exit_code>>
    /\ UNCHANGED <<op, pc, requests, list_backups_res, backup_name, restore_name,
                   available_backups, selection_texts, selection, backup_arn, desc,
                   print_mode, print_table, given_keys, items, output, skip_confirmation,
                   confirmation>>

(* join_all(...).await is over, lines 110, 142 and 165: every unit has     *)
(* finished and the command returns                                        *)
join_all ==
    /\ op \in {"describe_table", "describe_all_tables", "list_tables_all_regions"}
    /\ term = "running" /\ pc = "joining"
    /\ \A i \in 1..Len(units) : units[i].st = "done"
    /\ pc' = "done"
    /\ return
    /\ UNCHANGED <<op, log, stdout, requests, list_backups_res, backup_name, restore_name,
                   available_backups, selection_texts, selection, backup_arn, desc,
                   print_mode, print_table, given_keys, items, units, output,
                   skip_confirmation, confirmation>>

describe ==
    \/ describe_table_start
    \/ describe_all_tables_start
    \/ describe_all_tables_listed
    \/ list_tables_all_regions_start
    \/ list_tables_all_regions_listed
    \/ \E i \in 1..Len(units) : describe_table_ok(i)
    \/ \E i \in 1..Len(units) : describe_table_err(i)
    \/ \E i \in 1..Len(units) : list_tables_ok(i)
    \/ \E i \in 1..Len(units) : list_tables_err(i)
    \/ join_all

InitDescribe ==
    /\ op \in {"describe_table", "describe_all_tables", "list_tables_all_regions"}
    /\ pc = "start" /\ term = "running" /\ exit_code = NoCode
    /\ log = <<>> /\ stdout = <<>> /\ requests = <<>>
    /\ list_backups_res = [err |-> TRUE] /\ backup_name = None /\ restore_name = None
    /\ available_backups = <<>> /\ selection_texts = <<>> /\ selection = None
    /\ backup_arn = None
    /\ desc = None /\ print_mode = None /\ print_table = None /\ given_keys = <<>>
    /\ items = <<>> /\ units = <<>>
    /\ output \in (IF op = "list_tables_all_regions" THEN {None} ELSE Outputs)
    /\ skip_confirmation = FALSE /\ confirmation = None

SpecDescribe == InitDescribe /\ [][describe]_vars

(* ----------------- describe and the fan-out: claims ------------------- *)

CacheWarning == <<"line", "Failed to write table schema to the cache with follwoing error">>

(* C12: when the description of a table arrived and the cache write        *)
(* failed, the failure is printed as a warning and describe_table goes on: *)
(* for a supported output a description that can be printed is printed,    *)
(* after the warning, and describe_table alone then does not end the       *)
(* process.                                                                *)
C12_CacheFailureIsOnlyAWarning ==
    \A i \in 1..Len(units) :
        (op \in {"describe_table", "describe_all_tables"} /\ units[i].cache = "err") =>
            /\ \E k \in 1..Len(stdout) : stdout[k] = CacheWarning
            /\ (/\ output \in {None, Some("yaml")}
                /\ ~PrintDescribeTable(cx.region, units[i].desc[1]).panic) =>
                   /\ units[i].st = "done"
                   /\ units[i].printed = Some(PrintDescribeTable(cx.region, units[i].desc[1]).val)
                   /\ \E k \in 1..Len(stdout) :
                         /\ stdout[k] = <<"yaml", units[i].printed[1]>>
                         /\ k > 1 /\ stdout[k - 1] = CacheWarning
                   /\ op = "describe_table" => term \in {"running", "returned"}

(* C12 witness: describe_table printed the table after a failed cache      *)
(* write and has returned                                                  *)
C12_Witness ==
    /\ op = "describe_table" /\ term = "returned" /\ Len(units) = 1
    /\ units[1].cache = "err" /\ units[1].printed # None
    /\ Len(stdout) = 2

(* the requests of the units, after the request that lists the items *)
UnitRequests == IF op = "describe_table" THEN requests ELSE Tail(requests)

(* C13: describe_all_tables and list_tables_all_regions start one unit per *)
(* item, each with its own request; the command returns only when every    *)
(* unit has finished; and a unit whose service call failed has ended the   *)
(* whole process with exit code 1, whatever the state of the other units.  *)
C13_FanOutHasNoFailureIsolation ==
    (op \in {"describe_all_tables", "list_tables_all_regions"} /\ pc \in {"joining", "done"}) =>
        /\ Len(units) = Len(items)
        /\ Len(UnitRequests) = Len(items)
        /\ \A i \in 1..Len(items) : UnitRequests[i].item = items[i]
        /\ term = "returned" => \A i \in 1..Len(units) : units[i].st = "done"
        /\ (\E i \in 1..Len(units) : units[i].st = "failed") =>
              (term = "exited" /\ exit_code = 1)

(* C13 witness: of three regions one was listed, the call of another       *)
(* failed and the third has not answered; the process has ended            *)
C13_Witness ==
    /\ op = "list_tables_all_regions" /\ Len(units) = 3
    /\ units[1].st = "pending" /\ units[2].st = "failed" /\ units[3].st = "done"
    /\ term = "exited" /\ exit_code = 1

(* ----------------------------- delete_table --------------------------- *)

(* the name argument of delete_table *)
DeletedNames == {"Music", "Users"}

(* the answers of the confirmation prompt: yes, no, or no terminal *)
ConfirmationAnswers == {"yes", "no", "failed"}

(* the table descriptions a DeleteTable call answers with *)
DeletedDescs(name) ==
    {None, Some([DescBase EXCEPT !.table_name = None]),
     Some([DescBase EXCEPT !.table_name = Some(name)])}

(* the test of line 282 without the negation of the answer *)
delete_canceled_on_yes(skip, answer) == ~skip /\ answer

(* delete_table, line 282: the operation is canceled; the prompt is only   *)
(* asked when skip is false                                                *)
delete_canceled(skip, answer) == ~skip /\ ~answer

(* lines 287-290: the DeleteTable request *)
delete_table_request(name) ==
    requests' = Append(requests, [api |-> "DeleteTable", table_name |-> name])

(* lines 278-290: with skip_confirmation the request is sent, without it   *)
(* the prompt is shown                                                     *)
delete_table_start ==
    /\ op = "delete_table" /\ term = "running" /\ pc = "start"
    /\ log' = Append(log, <<"debug", "Trying to delete a table">>)
    /\ IF skip_confirmation
       THEN /\ ~delete_canceled(skip_confirmation, FALSE)
            /\ delete_table_request(items[1])
            /\ pc' = "awaiting"
            /\ UNCHANGED stdout
       ELSE /\ stdout' = Append(stdout, <<"prompt", "You're trying to delete a table. Are you OK?", items[1]>>)
            /\ pc' = "confirming"
            /\ UNCHANGED requests
    /\ UNCHANGED <<op, term, exit_code, list_backups_res, backup_name, restore_name,
                   available_backups, selection_texts, selection, backup_arn, desc,
                   print_mode, print_table, given_keys, items, units, output,
                   skip_confirmation, confirmation>>

(* lines 282-290: the prompt was answered *)
delete_table_confirm ==
    /\ op = "delete_table" /\ term = "running" /\ pc = "confirming"
    /\ \E answer \in ConfirmationAnswers :
         /\ confirmation' = Some(answer)
         /\ IF answer = "failed"
            THEN panic /\ UNCHANGED <<pc, stdout, requests>>
            ELSE IF delete_canceled(skip_confirmation, answer = "yes")
            THEN /\ stdout' = Append(stdout, <<"line", "The table delete operation has been canceled.">>)
                 /\ return
                 /\ pc' = "done"
                 /\ UNCHANGED requests
            ELSE /\ delete_table_request(items[1])
                 /\ pc' = "awaiting"
                 /\ UNCHANGED <<term, exit_code, stdout>>
    /\ UNCHANGED <<op, log, list_backups_res, backup_name, restore_name,
                   available_backups, selection_texts, selection, backup_arn, desc,
                   print_mode, print_table, given_keys, items, units, output,
                   skip_confirmation>>

(* lines 291-295: the call failed *)
delete_table_err ==
    /\ op = "delete_table" /\ term = "running" /\ pc = "awaiting"
    /\ log' = log \o << <<"debug", "DeleteTable API call got an error">>,
                        <<"error", "DeleteTable error">> >>
    /\ exit(1)
    /\ pc' = "done"
    /\ UNCHANGED <<op, stdout, requests, list_backups_res, backup_name, restore_name,
                   available_backups, selection_texts, selection, backup_arn, desc,
                   print_mode, print_table, given_keys, items, units, output,
                   skip_confirmation, confirmation>>

(* lines 296-299: the call answered *)
delete_table_ok ==
    /\ op = "delete_table" /\ term = "running" /\ pc = "awaiting"
    /\ log' = Append(log, <<"debug", "Returned result">>)
    /\ \E table_description \in DeletedDescs(items[1]) :
         IF table_description = None
         THEN panic /\ UNCHANGED stdout
         ELSE IF table_description[1].table_name = None
         THEN panic /\ UNCHANGED stdout
         ELSE /\ stdout' = Append(stdout, <<"line", "DynamoDB table has been deleted successfully.",
                                             table_description[1].table_name[1]>>)
              /\ return
    /\ pc' = "done"
    /\ UNCHANGED <<op, requests, list_backups_res, backup_name, restore_name,
                   available_backups, selection_texts, selection, backup_arn, desc,
                   print_mode, print_table, given_keys, items, units, output,
                   skip_confirmation, confirmation>>

delete ==
    \/ delete_table_start
    \/ delete_table_confirm
    \/ delete_table_err
    \/ delete_table_ok

InitDelete ==
    /\ op = "delete_table" /\ pc = "start" /\ term = "running" /\ exit_code = NoCode
    /\ log = <<>> /\ stdout = <<>> /\ requests = <<>>
    /\ list_backups_res = [err |-> TRUE] /\ backup_name = None /\ restore_name = None
    /\ available_backups = <<>> /\ selection_texts = <<>> /\ selection = None
    /\ backup_arn = None
    /\ desc = None /\ print_mode = None /\ print_table = None /\ given_keys = <<>>
    /\ \E name \in DeletedNames : items = <<name>>
    /\ units = <<>> /\ output = None
    /\ skip_confirmation \in BOOLEAN /\ confirmation = None

(* the commands that create and delete tables and indexes *)
InitTable == InitCreate \/ InitDelete

table ==
    \/ create
    \/ delete

SpecTable == InitTable /\ [][table]_vars

(* ------------------------- delete_table: claims ------------------------ *)

PromptShown == \E k \in 1..Len(stdout) : stdout[k][1] = "prompt"

(* C14: delete_table sends its request only with skip_confirmation or      *)
(* after a yes to the prompt; after a no it prints that the operation was  *)
(* canceled and returns without a request; with skip_confirmation no       *)
(* prompt is shown.                                                        *)
C14_DeleteOnlyWhenConfirmed ==
    op = "delete_table" =>
        /\ requests # <<>> =>
              /\ skip_confirmation \/ confirmation = Some("yes")
              /\ requests = << [api |-> "DeleteTable", table_name |-> items[1]] >>
        /\ (~skip_confirmation /\ confirmation = Some("no")) =>
              /\ requests = <<>>
              /\ term = "returned"
              /\ stdout[Len(stdout)] = <<"line", "The table delete operation has been canceled.">>
        /\ skip_confirmation => (~PromptShown /\ confirmation = None /\ pc # "confirming")
        /\ (~skip_confirmation /\ pc # "start") => PromptShown

(* C14 witness: the prompt was answered with no and delete_table returned *)
C14_Witness ==
    /\ op = "delete_table" /\ ~skip_confirmation /\ confirmation = Some("no")
    /\ term = "returned" /\ requests = <<>>

====
